---------------------------- MODULE Spec2Model ----------------------------
(***************************************************************************)
(* hack/import-assets/providers.go: the import of upstream provider        *)
(* manifests.  importProviders walks the provider list; for each selected  *)
(* provider it loads the components, rewrites cert-manager injection into  *)
(* service-ca injection, splits the RBAC objects out, filters the IPAM     *)
(* components of metal3, updates the image catalog and writes three files. *)
(*                                                                         *)
(* Text is a sequence of atoms.  An atom is one character, or a run of     *)
(* lower-case characters that holds no separator ("/", ":", "@") and is    *)
(* no part of an occurrence of "ipam" or "provider"; strings.Split,        *)
(* ToLower, Contains and ReplaceAll are computed on these sequences.       *)
(***************************************************************************)
EXTENDS Naturals, Sequences, FiniteSets, TLC

VARIABLES
    providerFilter, \* importProviders' argument
    upstream,       \* provider name -> components of its repository, once fetched
    catalog,        \* content of ../sample-images.json
    files,          \* path -> content, the files under assets/providers and manifests
    run,            \* number of the invocation of importProviders
    idx,            \* position in the providers list
    pc,             \* the statement importProviders is at
    components,     \* p.components.Objs()
    finalObjs,      \* the object stream in hand
    rbacObjs,       \* the RBAC stream
    written,        \* <<provider name, output>> written by this invocation
    prev,           \* outputs as the previous invocation left them
    fullImage,      \* imageToKey's argument
    key             \* imageToKey's result

vars == <<providerFilter, upstream, catalog, files, run, idx, pc, components,
          finalObjs, rbacObjs, written, prev, fullImage, key>>

---------------------------------------------------------------------------
(* Bounds *)

MaxRuns == 2
MaxResolveObjs == 5
MaxKindObjs == 3
MaxImageObjs == 2

---------------------------------------------------------------------------
(* strings *)

UpperCase == <<"A","B","C","D","E","F","G","H","I","J","K","L","M",
               "N","O","P","Q","R","S","T","U","V","W","X","Y","Z">>
LowerCase == <<"a","b","c","d","e","f","g","h","i","j","k","l","m",
               "n","o","p","q","r","s","t","u","v","w","x","y","z">>

LowerChar(c) ==
    IF \E i \in DOMAIN UpperCase : UpperCase[i] = c
    THEN LowerCase[CHOOSE i \in DOMAIN UpperCase : UpperCase[i] = c]
    ELSE c

ToLower(s) == [i \in 1..Len(s) |-> LowerChar(s[i])]

Contains(s, sub) ==
    \E i \in 0..Len(s) : i + Len(sub) <= Len(s) /\ SubSeq(s, i + 1, i + Len(sub)) = sub

RECURSIVE ReplaceAllWithEmpty(_, _)
ReplaceAllWithEmpty(s, old) ==
    IF Len(s) < Len(old) THEN s
    ELSE IF SubSeq(s, 1, Len(old)) = old
         THEN ReplaceAllWithEmpty(SubSeq(s, Len(old) + 1, Len(s)), old)
         ELSE <<Head(s)>> \o ReplaceAllWithEmpty(Tail(s), old)

\* strings.Split(s, sep) for a one-atom separator: always at least one piece
RECURSIVE Split(_, _)
Split(s, sep) ==
    IF \A i \in DOMAIN s : s[i] # sep THEN <<s>>
    ELSE LET i == CHOOSE j \in DOMAIN s : s[j] = sep /\ \A k \in 1..(j - 1) : s[k] # sep
         IN  <<SubSeq(s, 1, i - 1)>> \o Split(SubSeq(s, i + 1, Len(s)), sep)

---------------------------------------------------------------------------
(* the provider list *)

CoreProviderType == <<"C","o","r","e","P","r","o","v","i","d","e","r">>
InfrastructureProviderType ==
    <<"I","n","f","r","a","s","t","r","u","c","t","u","r","e","P","r","o","v","i","d","e","r">>

providers == <<
    [name |-> "cluster-api", ptype |-> CoreProviderType],
    [name |-> "aws",         ptype |-> InfrastructureProviderType],
    [name |-> "azure",       ptype |-> InfrastructureProviderType],
    [name |-> "metal3",      ptype |-> InfrastructureProviderType],
    [name |-> "gcp",         ptype |-> InfrastructureProviderType],
    [name |-> "openstack",   ptype |-> InfrastructureProviderType] >>

ProviderWord == <<"p","r","o","v","i","d","e","r">>

providerTypeName(p) == ReplaceAllWithEmpty(ToLower(p.ptype), ProviderWord)

---------------------------------------------------------------------------
(* imageToKey *)

imageToKey(p, image) ==
    LET frag    == Split(image, "/")
        nameVer == frag[Len(frag)]
        name    == Split(nameVer, ":")[1]
    IN  IF name = <<"kube-rbac-proxy">> THEN <<"kube-rbac-proxy">>
        ELSE IF name = <<"ip-address-manager">>
             THEN providerTypeName(p) \o <<"-", p.name, ":">> \o name
             ELSE providerTypeName(p) \o <<"-", p.name, ":", "manager">>

---------------------------------------------------------------------------
(* objects: unstructured.Unstructured, with the fields the typed           *)
(* conversions read                                                        *)

InjectCAFrom     == "cert-manager.io/inject-ca-from"
InjectCABundle   == "service.beta.openshift.io/inject-cabundle"
ServingCertName  == "service.beta.openshift.io/serving-cert-secret-name"
OpenShiftRelease == "include.release.openshift.io/self-managed-high-availability"

True == <<"true">>

NoAnns == [k \in {} |-> <<>>]

SetAnn(anns, k, v) == [x \in (DOMAIN anns) \cup {k} |-> IF x = k THEN v ELSE anns[x]]

DelAnn(anns, k) == [x \in (DOMAIN anns) \ {k} |-> anns[x]]

\* kind, name, whether the object decodes into its kind's type (scheme.Convert),
\* annotations, Certificate.Spec.SecretName, whether the service reference
\* (Spec.Conversion.Webhook.ClientConfig.Service, Webhooks[0].ClientConfig.Service)
\* is there, its Name, and Spec.Template.Spec.Containers[*].Image
Obj(kind, name) ==
    [uid |-> 0, kind |-> kind, name |-> name, malformed |-> FALSE, anns |-> NoAnns,
     secretName |-> <<>>, hasSvc |-> FALSE, svc |-> <<>>, containers |-> <<>>]

InjectKinds == {"CustomResourceDefinition", "MutatingWebhookConfiguration",
                "ValidatingWebhookConfiguration"}
DropKinds == {"Certificate", "Issuer", "Namespace"}
RBACKinds == {"ClusterRole", "Role", "ClusterRoleBinding", "RoleBinding", "ServiceAccount"}

---------------------------------------------------------------------------
(* findWebhookServiceSecretName *)

MapSet(m, k, v) == [x \in (DOMAIN m) \cup {k} |-> IF x = k THEN v ELSE m[x]]

MapSetIfAbsent(m, k, v) == IF k \in DOMAIN m THEN m ELSE MapSet(m, k, v)

NoMap == [k \in {} |-> <<>>]

\* the first loop: certSecretNames, or a panic on a Certificate that does not convert
RECURSIVE certSecretNamesFrom(_, _)
certSecretNamesFrom(objs, acc) ==
    IF objs = <<>> \/ acc.panic THEN acc
    ELSE LET obj == Head(objs)
         IN  certSecretNamesFrom(Tail(objs),
                IF obj.kind # "Certificate" THEN acc
                ELSE IF obj.malformed THEN [acc EXCEPT !.panic = TRUE]
                ELSE [acc EXCEPT !.map = MapSet(acc.map, obj.name, obj.secretName)])

\* strings.Split(certNN, "/")[1] panics (index out of range) without a "/"
secretFromCertNN(certSecretNames, certNN) ==
    LET parts == Split(certNN, "/")
    IN  IF Len(parts) < 2 THEN [panic |-> TRUE, ok |-> FALSE, secretName |-> <<>>]
        ELSE IF parts[2] \notin DOMAIN certSecretNames \/ certSecretNames[parts[2]] = <<>>
             THEN [panic |-> FALSE, ok |-> FALSE, secretName |-> <<>>]
             ELSE [panic |-> FALSE, ok |-> TRUE, secretName |-> certSecretNames[parts[2]]]

recordServiceFirstWins(m, svc, secretName) == MapSetIfAbsent(m, svc, secretName)

\* serviceSecretNames[...Service.Name] = secretName
recordService(m, svc, secretName) == MapSet(m, svc, secretName)

\* the second loop: serviceSecretNames, or a panic
RECURSIVE serviceSecretNamesFrom(_, _, _)
serviceSecretNamesFrom(objs, certSecretNames, acc) ==
    IF objs = <<>> \/ acc.panic THEN acc
    ELSE LET obj == Head(objs)
             r   == secretFromCertNN(certSecretNames, obj.anns[InjectCAFrom])
         IN  serviceSecretNamesFrom(Tail(objs), certSecretNames,
                IF obj.kind \notin InjectKinds THEN acc
                ELSE IF obj.malformed THEN [acc EXCEPT !.panic = TRUE]
                ELSE IF InjectCAFrom \notin DOMAIN obj.anns THEN acc
                ELSE IF r.panic \/ ~r.ok \/ ~obj.hasSvc THEN [acc EXCEPT !.panic = TRUE]
                ELSE [acc EXCEPT !.map = recordService(acc.map, obj.svc, r.secretName)])

\* [panic, map]: the panic, or the serviceSecretNames returned
findWebhookServiceSecretName(objs) ==
    LET certs == certSecretNamesFrom(objs, [panic |-> FALSE, map |-> NoMap])
    IN  IF certs.panic THEN certs
        ELSE serviceSecretNamesFrom(objs, certs.map, [panic |-> FALSE, map |-> NoMap])

---------------------------------------------------------------------------
(* certManagerToServiceCA, splitRBACOut, filterOutIPAM *)

swapInjectionKeepOld(anns) == SetAnn(anns, InjectCABundle, True)

\* anns[inject-cabundle] = "true"; delete(anns, inject-ca-from)
swapInjection(anns) == DelAnn(SetAnn(anns, InjectCABundle, True), InjectCAFrom)

rewriteObj(obj, serviceSecretNames) ==
    IF obj.kind \in InjectKinds
    THEN IF InjectCAFrom \in DOMAIN obj.anns
         THEN <<[obj EXCEPT !.anns = swapInjection(obj.anns)]>>
         ELSE <<obj>>
    ELSE IF obj.kind = "Service"
    THEN IF obj.name \in DOMAIN serviceSecretNames
         THEN <<[obj EXCEPT !.anns = SetAnn(obj.anns, ServingCertName,
                                            serviceSecretNames[obj.name])]>>
         ELSE <<obj>>
    ELSE IF obj.kind \in DropKinds THEN <<>>
    ELSE <<obj>>

RECURSIVE rewriteAll(_, _)
rewriteAll(objs, serviceSecretNames) ==
    IF objs = <<>> THEN <<>>
    ELSE rewriteObj(Head(objs), serviceSecretNames) \o rewriteAll(Tail(objs), serviceSecretNames)

\* defined when findWebhookServiceSecretName does not panic
certManagerToServiceCA(objs) == rewriteAll(objs, findWebhookServiceSecretName(objs).map)

\* setOpenShiftAnnotations(obj, false)
setOpenShiftAnnotations(obj) == [obj EXCEPT !.anns = SetAnn(obj.anns, OpenShiftRelease, True)]

splitRBACOutKeepInCore(objs) ==
    [finalObjs |-> objs,
     rbacObjs  |-> [i \in DOMAIN SelectSeq(objs, LAMBDA o : o.kind \in RBACKinds) |->
                      setOpenShiftAnnotations(SelectSeq(objs, LAMBDA o : o.kind \in RBACKinds)[i])]]

splitRBACOut(objs) ==
    LET rbac == SelectSeq(objs, LAMBDA o : o.kind \in RBACKinds)
    IN  [finalObjs |-> SelectSeq(objs, LAMBDA o : o.kind \notin RBACKinds),
         rbacObjs  |-> [i \in DOMAIN rbac |-> setOpenShiftAnnotations(rbac[i])]]

Ipam == <<"i","p","a","m">>

filterOutIPAMCaseSensitive(objs) ==
    SelectSeq(objs, LAMBDA o : o.kind = "CustomResourceDefinition" \/ ~Contains(o.name, Ipam))

filterOutIPAM(objs) ==
    SelectSeq(objs, LAMBDA o : o.kind = "CustomResourceDefinition"
                               \/ ~Contains(ToLower(o.name), Ipam))

---------------------------------------------------------------------------
(* updateImages *)

RECURSIVE addContainerImagesKeepFirst(_, _, _)
addContainerImagesKeepFirst(p, images, containerImages) ==
    IF images = <<>> THEN containerImages
    ELSE addContainerImagesKeepFirst(p, Tail(images),
            MapSetIfAbsent(containerImages, imageToKey(p, Head(images)), Head(images)))

\* for _, c := range dep.Spec.Template.Spec.Containers
RECURSIVE addContainerImages(_, _, _)
addContainerImages(p, images, containerImages) ==
    IF images = <<>> THEN containerImages
    ELSE addContainerImages(p, Tail(images),
                            MapSet(containerImages, imageToKey(p, Head(images)), Head(images)))

\* for i, obj := range objs: [err, map]
RECURSIVE addDeploymentImages(_, _, _)
addDeploymentImages(p, objs, acc) ==
    IF objs = <<>> \/ acc.err THEN acc
    ELSE LET obj == Head(objs)
         IN  addDeploymentImages(p, Tail(objs),
                IF obj.kind # "Deployment" THEN acc
                ELSE IF obj.malformed THEN [acc EXCEPT !.err = TRUE]
                ELSE [acc EXCEPT !.map = addContainerImages(p, obj.containers, acc.map)])

updateImagesFromEmpty(p, objs, jsonData) ==
    addDeploymentImages(p, objs, [err |-> FALSE, map |-> NoMap])

\* the map to write back, or the error of a Deployment that does not convert;
\* jsonData is the catalog as read (json.Unmarshal and json.MarshalIndent of a
\* map[string]string are each other's inverse)
updateImages(p, objs, jsonData) ==
    addDeploymentImages(p, objs, [err |-> FALSE, map |-> jsonData])

---------------------------------------------------------------------------
(* files *)

providerVersions == [n \in {providers[i].name : i \in DOMAIN providers} |-> "v1"]

Metadata == <<"metadata.yaml">>

\* a file's content: what was serialized into it, or the bytes a failed write left
Content(data) == [ok |-> TRUE, data |-> data]
Truncated == [ok |-> FALSE, data |-> <<>>]

osWriteFileAppend(fs, path, data) ==
    IF path \in DOMAIN fs THEN MapSet(fs, path, Content(<<fs[path].data, data>>))
    ELSE MapSet(fs, path, Content(data))

\* os.WriteFile without error: the file holds data
osWriteFile(fs, path, data) == MapSet(fs, path, Content(data))

\* os.WriteFile with an error: the file is as before, or created and cut short
osWriteFileError(fs, path) == {fs, MapSet(fs, path, Truncated)}

rbacPath(p) ==
    <<"manifests", "/">> \o
    ToLower(<<"0000_30_cluster-api-">> \o providerTypeName(p) \o <<"-", p.name, "_03_rbac.yaml">>)

componentsPath(p) ==
    <<"assets", "/", "providers", "/">> \o
    ToLower(providerTypeName(p) \o <<"-", p.name, ".yaml">>)

providerPath(p) ==
    <<"assets", "/", "providers", "/">> \o
    ToLower(providerTypeName(p) \o <<"-", p.name, "-provider.yaml">>)

providerSpec(p) ==
    [version |-> providerVersions[p.name],
     matchLabels |-> [name |-> p.name, type |-> providerTypeName(p)]]

\* the ConfigMap of writeProviderComponents
configMap(p, objs) ==
    [kind |-> "ConfigMap", name |-> <<p.name, "-", providerVersions[p.name]>>,
     namespace |-> "openshift-cluster-api",
     labels |-> [name |-> p.name, type |-> providerTypeName(p),
                 version |-> providerVersions[p.name]],
     data |-> [metadata |-> Metadata, components |-> objs]]

Core == <<"c","o","r","e">>
Infrastructure == <<"i","n","f","r","a","s","t","r","u","c","t","u","r","e">>

\* the object of writeProviders (the control-plane and bootstrap arms are not
\* reached from the provider list)
providerObject(p) ==
    [kind |-> IF providerTypeName(p) = Core THEN "CoreProvider"
              ELSE IF providerTypeName(p) = Infrastructure THEN "InfrastructureProvider"
              ELSE "nil",
     name |-> p.name, namespace |-> "openshift-cluster-api", spec |-> providerSpec(p)]

---------------------------------------------------------------------------
(* inputs *)

C1Name == <<"c1">>
C2Name == <<"c2">>
Secret1 == <<"s1">>
Secret2 == <<"s2">>
Svc1Name == <<"svc1">>
Svc2Name == <<"svc2">>
NsC1 == <<"ns", "/", "c1">>
NsC2 == <<"ns", "/", "c2">>

CertA     == [Obj("Certificate", C1Name) EXCEPT !.secretName = Secret1]
CertB     == [Obj("Certificate", C2Name) EXCEPT !.secretName = Secret2]
CertEmpty == [Obj("Certificate", C2Name) EXCEPT !.secretName = <<>>]

Injecting(kind, name, certNN, svc) ==
    [Obj(kind, name) EXCEPT !.anns = SetAnn(NoAnns, InjectCAFrom, certNN),
                            !.hasSvc = TRUE, !.svc = svc]

CrdC1Svc1 == Injecting("CustomResourceDefinition", <<"clusters">>, NsC1, Svc1Name)
VwcC2Svc1 == Injecting("ValidatingWebhookConfiguration", <<"validating">>, NsC2, Svc1Name)
MwcC1Svc2 == Injecting("MutatingWebhookConfiguration", <<"mutating">>, NsC1, Svc2Name)
CrdPlain  == [Obj("CustomResourceDefinition", <<"machines">>) EXCEPT
                 !.anns = SetAnn(NoAnns, "controller-gen", <<"v0.7">>)]
SvcOne    == Obj("Service", Svc1Name)
SvcTwo    == [Obj("Service", Svc2Name) EXCEPT !.anns = SetAnn(NoAnns, "owner", <<"capi">>)]

ResolveUniverse ==
    {CertA, CertB, CertEmpty, CrdC1Svc1, VwcC2Svc1, MwcC1Svc2, CrdPlain, SvcOne, SvcTwo}

CrdIpam    == Injecting("CustomResourceDefinition", <<"i","p","a","m","s">>, NsC1, Svc1Name)
CrdNoSlash == Injecting("CustomResourceDefinition", <<"rings">>, C1Name, Svc1Name)
MwcNoSvc   == [Injecting("MutatingWebhookConfiguration", <<"I","p","a","m">>, NsC1, <<>>)
                 EXCEPT !.hasSvc = FALSE]
CrdBroken  == [Obj("CustomResourceDefinition", <<"broken">>) EXCEPT !.malformed = TRUE]
SvcIPAM    == Obj("Service", <<"x", "-", "I","P","A","M">>)
IssuerObj  == Obj("Issuer", <<"selfsigned">>)
NamespaceObj == Obj("Namespace", <<"capm3-system">>)
ClusterRoleIpam == Obj("ClusterRole", <<"i","p","a","m", "-", "role">>)
RoleObj    == Obj("Role", <<"leader-election">>)
ClusterRoleBindingObj == Obj("ClusterRoleBinding", <<"manager-rolebinding">>)
RoleBindingObj == Obj("RoleBinding", <<"I","P","a","m", "-", "binding">>)
ServiceAccountObj == Obj("ServiceAccount", <<"manager">>)
ConfigMapIpa == Obj("ConfigMap", <<"i","p","a", "-", "m">>)

MgrV1    == <<"registry.k8s.io", "/", "cluster-api", "/", "capi-controller", ":", "v1">>
MgrOther == <<"quay.io", "/", "metal3-io", "/", "baremetal-operator">>
Sidecar  == <<"metrics-sidecar", ":", "v2">>
ProxyV1  == <<"gcr.io", "/", "kubebuilder", "/", "kube-rbac-proxy", ":", "v1">>
ProxyV2  == <<"gcr.io", "/", "kubebuilder", "/", "kube-rbac-proxy", ":", "v2">>
IpamImg  == <<"quay.io", "/", "metal3-io", "/", "ip-address-manager", ":", "v1">>

Deployment(name, images) == [Obj("Deployment", name) EXCEPT !.containers = images]

DepA    == Deployment(<<"controller-manager">>, <<MgrV1, ProxyV1>>)
DepB    == Deployment(<<"c", "-", "I","p","a","m">>, <<MgrOther, IpamImg, Sidecar>>)
DepC    == Deployment(<<"proxy">>, <<ProxyV2>>)
DepBad  == [Deployment(<<"bad">>, <<MgrV1>>) EXCEPT !.malformed = TRUE]

KindUniverse ==
    {CertA, IssuerObj, NamespaceObj, CrdIpam, CrdNoSlash, MwcNoSvc, CrdBroken, SvcIPAM,
     ClusterRoleIpam, RoleObj, ClusterRoleBindingObj, RoleBindingObj, ServiceAccountObj,
     ConfigMapIpa, DepA, DepB}

ImageUniverse == {DepA, DepB, DepC, DepBad, SvcOne}

\* the sequences of at most n different objects of U
InjSeqs(U, n) ==
    UNION {{s \in [1..k -> U] : \A i, j \in 1..k : i # j => s[i] # s[j]} : k \in 0..n}

\* the i-th object of a set of components is object i
Numbered(objs) == [i \in DOMAIN objs |-> [objs[i] EXCEPT !.uid = i]]

GoodA == <<CertA, CrdC1Svc1, SvcOne, ClusterRoleIpam, DepA>>
GoodB == <<ServiceAccountObj, SvcIPAM, DepB, DepC>>
BadRef == <<CrdC1Svc1, DepA>>
BadDeployment == <<RoleObj, DepA, DepBad>>
UpstreamChoices == {GoodA, GoodB, BadRef, BadDeployment}

StaleKey == <<"stale">>
Catalogs ==
    {Content(NoMap),
     Content(MapSet(MapSet(NoMap, StaleKey, MgrV1), <<"kube-rbac-proxy">>, ProxyV2)),
     Content(MapSet(NoMap, imageToKey(providers[2], MgrV1), MgrOther)),
     Truncated}

ImagePrefixes == {<<>>, <<"quay.io", "/", "foo", "/">>, <<"localhost", ":", "5000", "/">>}
ImageNames    == {"kube-rbac-proxy", "ip-address-manager", "capi-controller"}
ImageSuffixes == {<<>>, <<":", "v1">>, <<"@", "sha256", ":", "abc">>,
                  <<":", "v1", "@", "sha256", ":", "abc">>}
KeyImages == {pre \o <<n>> \o suf : pre \in ImagePrefixes, n \in ImageNames, suf \in ImageSuffixes}

Filters == {"", "aws", "metal3"}

---------------------------------------------------------------------------
(* importProviders *)

ProviderNames == {providers[i].name : i \in DOMAIN providers}

Selected(i) == providerFilter = "" \/ providers[i].name = providerFilter

\* the next provider the loop does not skip, from position i on
NextSelected(i) ==
    IF \E j \in i..Len(providers) : Selected(j)
    THEN CHOOSE j \in i..Len(providers) : Selected(j) /\ \A k \in i..(j - 1) : ~Selected(k)
    ELSE Len(providers) + 1

P == providers[idx]

Terminal == {"done", "failed", "panicked"}

NoLocals ==
    /\ components = <<>> /\ finalObjs = <<>> /\ rbacObjs = <<>>
    /\ fullImage = <<>> /\ key = <<>>

Init ==
    /\ providerFilter \in Filters
    /\ upstream = [n \in ProviderNames |-> [fetched |-> FALSE, objs |-> <<>>]]
    /\ catalog \in Catalogs
    /\ files = NoMap
    /\ run = 1
    /\ idx = NextSelected(1)
    /\ pc = IF idx > Len(providers) THEN "done" ELSE "load"
    /\ written = {}
    /\ prev = [files |-> files, catalog |-> catalog, done |-> FALSE]
    /\ NoLocals

\* p.loadComponents() without error: the repository's components, the same at
\* every fetch
LoadComponents ==
    /\ pc = "load"
    /\ \E objs \in (IF upstream[P.name].fetched THEN {upstream[P.name].objs}
                    ELSE UpstreamChoices) :
          /\ upstream' = [upstream EXCEPT ![P.name] = [fetched |-> TRUE, objs |-> objs]]
          /\ components' = Numbered(objs)
    /\ finalObjs' = <<>> /\ rbacObjs' = <<>>
    /\ pc' = "rewrite"
    /\ UNCHANGED <<providerFilter, catalog, files, run, idx, written, prev, fullImage, key>>

ReturnErrContinue ==
    /\ idx' = NextSelected(idx + 1)
    /\ pc' = IF idx' > Len(providers) THEN "done" ELSE "load"
    /\ UNCHANGED <<providerFilter, upstream, run, components, finalObjs, rbacObjs,
                   written, prev, fullImage, key>>

\* if err != nil { return err }
ReturnErr ==
    /\ pc' = "failed"
    /\ UNCHANGED <<providerFilter, upstream, run, idx, components, finalObjs, rbacObjs,
                   written, prev, fullImage, key>>

LoadComponentsError ==
    /\ pc = "load"
    /\ ReturnErr
    /\ UNCHANGED <<catalog, files>>

CertManagerToServiceCA ==
    /\ pc = "rewrite"
    /\ ~findWebhookServiceSecretName(components).panic
    /\ finalObjs' = certManagerToServiceCA(components)
    /\ pc' = "split"
    /\ UNCHANGED <<providerFilter, upstream, catalog, files, run, idx, components,
                   rbacObjs, written, prev, fullImage, key>>

\* a panic in findWebhookServiceSecretName ends the process
CertManagerToServiceCAPanic ==
    /\ pc = "rewrite"
    /\ findWebhookServiceSecretName(components).panic
    /\ pc' = "panicked"
    /\ UNCHANGED <<providerFilter, upstream, catalog, files, run, idx, components,
                   finalObjs, rbacObjs, written, prev, fullImage, key>>

SplitRBACOut ==
    /\ pc = "split"
    /\ finalObjs' = splitRBACOut(finalObjs).finalObjs
    /\ rbacObjs' = splitRBACOut(finalObjs).rbacObjs
    /\ pc' = "filter"
    /\ UNCHANGED <<providerFilter, upstream, catalog, files, run, idx, components,
                   written, prev, fullImage, key>>

\* if p.name == "metal3" { finalObjs = filterOutIPAM(finalObjs) }
FilterOutIPAM ==
    /\ pc = "filter"
    /\ finalObjs' = IF P.name = "metal3" THEN filterOutIPAM(finalObjs) ELSE finalObjs
    /\ pc' = "writeRBAC"
    /\ UNCHANGED <<providerFilter, upstream, catalog, files, run, idx, components,
                   rbacObjs, written, prev, fullImage, key>>

Step(from, to, path, data, output) ==
    /\ pc = from
    /\ files' = osWriteFile(files, path, data)
    /\ written' = written \cup {<<P.name, output>>}
    /\ pc' = to
    /\ UNCHANGED <<providerFilter, upstream, catalog, run, idx, components, finalObjs,
                   rbacObjs, prev, fullImage, key>>

StepError(from, path) ==
    /\ pc = from
    /\ files' \in osWriteFileError(files, path)
    /\ ReturnErr
    /\ UNCHANGED catalog

WriteRBACComponentsToManifests ==
    Step("writeRBAC", "updateImages", rbacPath(P), rbacObjs, "rbac")

WriteRBACComponentsToManifestsError == StepError("writeRBAC", rbacPath(P))

UpdateImages ==
    /\ pc = "updateImages"
    /\ catalog.ok
    /\ ~updateImages(P, finalObjs, catalog.data).err
    /\ catalog' = Content(updateImages(P, finalObjs, catalog.data).map)
    /\ written' = written \cup {<<P.name, "catalog">>}
    /\ pc' = "writeComponents"
    /\ UNCHANGED <<providerFilter, upstream, files, run, idx, components, finalObjs,
                   rbacObjs, prev, fullImage, key>>

\* the catalog cannot be read or parsed, a Deployment does not convert, or the
\* write back fails
UpdateImagesError ==
    /\ pc = "updateImages"
    /\ catalog' \in {catalog} \cup
                    (IF catalog.ok /\ ~updateImages(P, finalObjs, catalog.data).err
                     THEN {Truncated} ELSE {})
    /\ ReturnErr
    /\ UNCHANGED files

WriteProviderComponents ==
    Step("writeComponents", "writeProviders", componentsPath(P), configMap(P, finalObjs),
         "components")

WriteProviderComponentsError == StepError("writeComponents", componentsPath(P))

\* the last statement of the loop body, then the next provider
WriteProviders ==
    /\ pc = "writeProviders"
    /\ files' = osWriteFile(files, providerPath(P), providerObject(P))
    /\ written' = written \cup {<<P.name, "provider">>}
    /\ idx' = NextSelected(idx + 1)
    /\ pc' = IF idx' > Len(providers) THEN "done" ELSE "load"
    /\ UNCHANGED <<providerFilter, upstream, catalog, run, components, finalObjs,
                   rbacObjs, prev, fullImage, key>>

WriteProvidersError == StepError("writeProviders", providerPath(P))

\* the tool is run again after a run that completed, with the same argument
Rerun ==
    /\ pc = "done"
    /\ run < MaxRuns
    /\ run' = run + 1
    /\ prev' = [files |-> files, catalog |-> catalog, done |-> pc = "done"]
    /\ idx' = NextSelected(1)
    /\ pc' = IF idx' > Len(providers) THEN "done" ELSE "load"
    /\ written' = {}
    /\ components' = <<>> /\ finalObjs' = <<>> /\ rbacObjs' = <<>>
    /\ UNCHANGED <<providerFilter, upstream, catalog, files, fullImage, key>>

Next ==
    \/ LoadComponents
    \/ LoadComponentsError
    \/ CertManagerToServiceCA
    \/ CertManagerToServiceCAPanic
    \/ SplitRBACOut
    \/ FilterOutIPAM
    \/ WriteRBACComponentsToManifests
    \/ WriteRBACComponentsToManifestsError
    \/ UpdateImages
    \/ UpdateImagesError
    \/ WriteProviderComponents
    \/ WriteProviderComponentsError
    \/ WriteProviders
    \/ WriteProvidersError
    \/ Rerun

Spec == Init /\ [][Next]_vars

---------------------------------------------------------------------------
(* the transformation of one provider's components, for every input *)

AwsIdx == CHOOSE i \in DOMAIN providers : providers[i].name = "aws"
Metal3Idx == CHOOSE i \in DOMAIN providers : providers[i].name = "metal3"

InitTransform ==
    /\ providerFilter = ""
    /\ upstream = [n \in ProviderNames |-> [fetched |-> FALSE, objs |-> <<>>]]
    /\ catalog = Content(NoMap)
    /\ files = NoMap
    /\ run = 1
    /\ \/ /\ idx = AwsIdx
          /\ \E objs \in InjSeqs(ResolveUniverse, MaxResolveObjs) : components = Numbered(objs)
       \/ /\ idx \in {AwsIdx, Metal3Idx}
          /\ \E objs \in InjSeqs(KindUniverse, MaxKindObjs) : components = Numbered(objs)
    /\ pc = "rewrite"
    /\ finalObjs = <<>> /\ rbacObjs = <<>> /\ fullImage = <<>> /\ key = <<>>
    /\ written = {}
    /\ prev = [files |-> files, catalog |-> catalog, done |-> FALSE]

NextTransform ==
    \/ CertManagerToServiceCA
    \/ CertManagerToServiceCAPanic
    \/ SplitRBACOut
    \/ FilterOutIPAM

SpecTransform == InitTransform /\ [][NextTransform]_vars

---------------------------------------------------------------------------
(* updateImages, for every catalog and every object stream *)

InitImages ==
    /\ providerFilter = ""
    /\ upstream = [n \in ProviderNames |-> [fetched |-> FALSE, objs |-> <<>>]]
    /\ catalog \in Catalogs
    /\ files = NoMap
    /\ run = 1
    /\ idx \in DOMAIN providers
    /\ pc = "updateImages"
    /\ components = <<>> /\ rbacObjs = <<>> /\ fullImage = <<>> /\ key = <<>>
    /\ \E objs \in InjSeqs(ImageUniverse, MaxImageObjs) : finalObjs = Numbered(objs)
    /\ written = {}
    /\ prev = [files |-> files, catalog |-> catalog, done |-> FALSE]

NextImages ==
    \/ UpdateImages
    \/ UpdateImagesError

SpecImages == InitImages /\ [][NextImages]_vars

---------------------------------------------------------------------------
(* imageToKey, for every provider and image reference *)

InitKey ==
    /\ providerFilter = ""
    /\ upstream = [n \in ProviderNames |-> [fetched |-> FALSE, objs |-> <<>>]]
    /\ catalog = Content(NoMap)
    /\ files = NoMap
    /\ run = 1
    /\ idx \in DOMAIN providers
    /\ pc = "imageToKey"
    /\ components = <<>> /\ finalObjs = <<>> /\ rbacObjs = <<>>
    /\ fullImage \in KeyImages
    /\ key = <<>>
    /\ written = {}
    /\ prev = [files |-> files, catalog |-> catalog, done |-> FALSE]

ImageToKey ==
    /\ pc = "imageToKey"
    /\ key' = imageToKey(P, fullImage)
    /\ pc' = "returned"
    /\ UNCHANGED <<providerFilter, upstream, catalog, files, run, idx, components,
                   finalObjs, rbacObjs, written, prev, fullImage>>

NextKey == ImageToKey

SpecKey == InitKey /\ [][NextKey]_vars

---------------------------------------------------------------------------
(* properties: what the properties below read off the input *)

Last(S) == CHOOSE i \in S : \A j \in S : j <= i

Increasing(objs) == \A i, j \in DOMAIN objs : i < j => objs[i].uid < objs[j].uid

Uids(objs) == {objs[i].uid : i \in DOMAIN objs}

\* "ipam" in any case at position i of a name
IpamAt(name, i) ==
    /\ i + 3 <= Len(name)
    /\ name[i] \in {"i", "I"} /\ name[i + 1] \in {"p", "P"}
    /\ name[i + 2] \in {"a", "A"} /\ name[i + 3] \in {"m", "M"}

NamesIpam(name) == \E i \in DOMAIN name : IpamAt(name, i)

\* the objects of the input that carry the injection annotation
Annotated(objs) ==
    {i \in DOMAIN objs : objs[i].kind \in InjectKinds /\ InjectCAFrom \in DOMAIN objs[i].anns}

\* the certificate name of "<namespace>/<certificate-name>"
RefName(certNN) == Split(certNN, "/")[2]

CertsNamed(objs, name) ==
    {i \in DOMAIN objs : objs[i].kind = "Certificate" /\ objs[i].name = name}

UniqueCertNames(objs) ==
    \A i, j \in DOMAIN objs :
        objs[i].kind = "Certificate" /\ objs[j].kind = "Certificate" /\ objs[i].name = objs[j].name
            => i = j

\* the injection reference of object i resolves: it names a certificate of the
\* input whose last Certificate object has a secret name
Resolves(objs, i) ==
    /\ Len(Split(objs[i].anns[InjectCAFrom], "/")) >= 2
    /\ CertsNamed(objs, RefName(objs[i].anns[InjectCAFrom])) # {}
    /\ objs[Last(CertsNamed(objs, RefName(objs[i].anns[InjectCAFrom])))].secretName # <<>>

SecretOfRef(objs, i) ==
    objs[Last(CertsNamed(objs, RefName(objs[i].anns[InjectCAFrom])))].secretName

\* the annotated objects whose service reference names s
Targeting(objs, s) == {i \in Annotated(objs) : objs[i].hasSvc /\ objs[i].svc = s}

RECURSIVE ContainerImages(_)
ContainerImages(objs) ==
    IF objs = <<>> THEN <<>>
    ELSE (IF Head(objs).kind = "Deployment" THEN Head(objs).containers ELSE <<>>)
         \o ContainerImages(Tail(objs))

Outputs == {"rbac", "components", "provider"}

OwnPaths(p) == {rbacPath(p), componentsPath(p), providerPath(p)}

Position(name) == CHOOSE i \in DOMAIN providers : providers[i].name = name

---------------------------------------------------------------------------
(* C1 *)

\* C1: once the streams are split (and filtered), the core stream and the RBAC
\* stream are order-preserving subsequences of the input, share no object, hold
\* no object twice and none that is not an input object, and an input object is
\* in neither stream only if its kind is Certificate, Issuer or Namespace or, for
\* metal3 after the filter, its name holds "ipam".
C1_Conservation ==
    pc \in {"filter", "writeRBAC"} =>
        /\ Increasing(finalObjs) /\ Increasing(rbacObjs)
        /\ Uids(finalObjs) \cap Uids(rbacObjs) = {}
        /\ \A s \in {finalObjs, rbacObjs} : \A i \in DOMAIN s :
              /\ s[i].uid \in DOMAIN components
              /\ s[i].kind = components[s[i].uid].kind
              /\ s[i].name = components[s[i].uid].name
        /\ \A u \in DOMAIN components :
              u \notin Uids(finalObjs) \cup Uids(rbacObjs) =>
                 \/ components[u].kind \in DropKinds
                 \/ pc = "writeRBAC" /\ P.name = "metal3" /\ NamesIpam(components[u].name)

C1_Witness ==
    /\ pc = "writeRBAC" /\ P.name = "metal3"
    /\ finalObjs # <<>> /\ rbacObjs # <<>>
    /\ Len(finalObjs) + Len(rbacObjs) < Len(components)

---------------------------------------------------------------------------
(* C2 *)

\* C2 as stated: the output object of an annotated object whose certificate is
\* in the input has the injection annotation removed and the replacement
\* annotation present with the secret name; without a match the run fails.
C2_ReplacementCarriesSecret ==
    /\ pc = "split" =>
          \A i \in DOMAIN finalObjs :
             LET u == finalObjs[i].uid
             IN  u \in Annotated(components) =>
                    /\ InjectCAFrom \notin DOMAIN finalObjs[i].anns
                    /\ InjectCABundle \in DOMAIN finalObjs[i].anns
                    /\ finalObjs[i].anns[InjectCABundle] = SecretOfRef(components, u)
    /\ pc = "split" => \A u \in Annotated(components) : Resolves(components, u)

\* C2, amended: when the rewriter returns, every annotated object is in its
\* output with the injection annotation removed, inject-cabundle = "true" and
\* its other annotations kept, and every injection reference resolves; when it
\* panics there is no rewritten output.
C2_InjectionSwapped ==
    /\ pc = "split" =>
          /\ \A u \in Annotated(components) :
                /\ Resolves(components, u)
                /\ \E i \in DOMAIN finalObjs : finalObjs[i].uid = u
          /\ \A i \in DOMAIN finalObjs :
                LET u == finalObjs[i].uid
                IN  u \in Annotated(components) =>
                       /\ InjectCAFrom \notin DOMAIN finalObjs[i].anns
                       /\ finalObjs[i].anns =
                             SetAnn(DelAnn(components[u].anns, InjectCAFrom), InjectCABundle, True)
    /\ pc = "panicked" => finalObjs = <<>> /\ rbacObjs = <<>>

C2_Witness ==
    /\ pc = "split"
    /\ \E i \in DOMAIN finalObjs :
          /\ finalObjs[i].uid \in Annotated(components)
          /\ finalObjs[i].kind = "ValidatingWebhookConfiguration"
          /\ finalObjs[i].anns[InjectCABundle] = True

---------------------------------------------------------------------------
(* C7 *)

\* C7: after the filter step the core stream holds, in input order, exactly the
\* input objects that are neither dropped by kind nor RBAC and, for metal3 only,
\* are a CustomResourceDefinition or have no "ipam" in their lower-cased name.
C7_ComponentFilter ==
    pc = "writeRBAC" =>
        /\ Increasing(finalObjs)
        /\ Uids(finalObjs) =
              {u \in DOMAIN components :
                  /\ components[u].kind \notin DropKinds \cup RBACKinds
                  /\ \/ P.name # "metal3"
                     \/ components[u].kind = "CustomResourceDefinition"
                     \/ ~NamesIpam(components[u].name)}

C7_Witness ==
    /\ pc = "writeRBAC" /\ P.name = "metal3"
    /\ \E i \in DOMAIN finalObjs :
          finalObjs[i].kind = "CustomResourceDefinition" /\ NamesIpam(finalObjs[i].name)
    /\ \E u \in DOMAIN components :
          /\ components[u].kind = "Service" /\ NamesIpam(components[u].name)
          /\ ~Contains(components[u].name, Ipam)
          /\ u \notin Uids(finalObjs)

---------------------------------------------------------------------------
(* C8 *)

\* C8 as stated, for inputs whose certificate names are unique: every Service
\* named by an annotated object carries the secret name of the certificate
\* that object references; every other Service keeps its annotations.
C8_EveryReferenceAnnotates ==
    (pc = "split" /\ UniqueCertNames(components)) =>
        \A i \in DOMAIN finalObjs :
           finalObjs[i].kind = "Service" =>
              /\ \A u \in Targeting(components, finalObjs[i].name) :
                    /\ ServingCertName \in DOMAIN finalObjs[i].anns
                    /\ finalObjs[i].anns[ServingCertName] = SecretOfRef(components, u)
              /\ Targeting(components, finalObjs[i].name) = {} =>
                    finalObjs[i].anns = components[finalObjs[i].uid].anns

\* C8, amended: a Service named by annotated objects carries the secret name
\* of the certificate the last of them in input order references, and its other
\* annotations; every other Service keeps its annotations.
C8_LastReferenceAnnotates ==
    pc = "split" =>
        \A i \in DOMAIN finalObjs :
           finalObjs[i].kind = "Service" =>
              LET T == Targeting(components, finalObjs[i].name)
                  before == components[finalObjs[i].uid].anns
              IN  finalObjs[i].anns =
                     IF T = {} THEN before
                     ELSE SetAnn(before, ServingCertName, SecretOfRef(components, Last(T)))

C8_Witness ==
    /\ pc = "split" /\ UniqueCertNames(components)
    /\ \E i \in DOMAIN finalObjs :
          /\ finalObjs[i].kind = "Service"
          /\ \E u, v \in Targeting(components, finalObjs[i].name) :
                SecretOfRef(components, u) # SecretOfRef(components, v)
          /\ ServingCertName \in DOMAIN finalObjs[i].anns

---------------------------------------------------------------------------
(* C4 *)

\* the keys updateImages derives from the containers of the stream in hand
DerivedKeys == {imageToKey(P, ContainerImages(finalObjs)[i]) :
                   i \in DOMAIN ContainerImages(finalObjs)}

\* C4: a successful updateImages step removes no key from the catalog, and
\* leaves the value of every key that no container image of the step derives.
C4_CatalogMonotone ==
    [][(pc = "updateImages" /\ pc' = "writeComponents") =>
          /\ DOMAIN catalog.data \subseteq DOMAIN catalog'.data
          /\ \A k \in DOMAIN catalog.data :
                k \notin DerivedKeys => catalog'.data[k] = catalog.data[k]]_vars

C4_Witness ==
    /\ pc = "writeComponents"
    /\ StaleKey \in DOMAIN catalog.data
    /\ catalog.data[<<"kube-rbac-proxy">>] = ProxyV1
    /\ Cardinality(DOMAIN catalog.data) > 2

---------------------------------------------------------------------------
(* C5 *)

\* the trailing path segment of an image reference, cut at its tag or digest
BareName(image) ==
    LET slashes == {i \in DOMAIN image : image[i] = "/"}
        segment == IF slashes = {} THEN image
                   ELSE SubSeq(image, Last(slashes) + 1, Len(image))
        marks   == {i \in DOMAIN segment : segment[i] \in {":", "@"}}
    IN  IF marks = {} THEN segment
        ELSE SubSeq(segment, 1, (CHOOSE i \in marks : \A j \in marks : i <= j) - 1)

\* C5: the key of an image reference is "kube-rbac-proxy" when its bare name is
\* kube-rbac-proxy, "<type>-<name>:ip-address-manager" when it is
\* ip-address-manager and "<type>-<name>:manager" otherwise, for tagged, digest
\* and untagged references.
C5_KeyOfBareName ==
    pc = "returned" =>
        key = IF BareName(fullImage) = <<"kube-rbac-proxy">> THEN <<"kube-rbac-proxy">>
              ELSE IF BareName(fullImage) = <<"ip-address-manager">>
                   THEN providerTypeName(P) \o <<"-", P.name, ":", "ip-address-manager">>
                   ELSE providerTypeName(P) \o <<"-", P.name, ":", "manager">>

---------------------------------------------------------------------------
(* C10 *)

\* C10 as stated: after a successful updateImages every container image of the
\* stream is the catalog's value of its key.
C10_EveryImageRecorded ==
    pc = "writeComponents" =>
        \A i \in DOMAIN ContainerImages(finalObjs) :
           LET image == ContainerImages(finalObjs)[i]
           IN  /\ imageToKey(P, image) \in DOMAIN catalog.data
               /\ catalog.data[imageToKey(P, image)] = image

\* C10, amended: after a successful updateImages the catalog's value of every
\* derived key is the last container image, in stream and container order,
\* that derives the key.
C10_LastImageRecorded ==
    pc = "writeComponents" =>
        LET images == ContainerImages(finalObjs)
        IN  \A i \in DOMAIN images :
               (\A j \in DOMAIN images : j > i => imageToKey(P, images[j]) # imageToKey(P, images[i]))
                  => /\ imageToKey(P, images[i]) \in DOMAIN catalog.data
                     /\ catalog.data[imageToKey(P, images[i])] = images[i]

C10_Witness ==
    /\ pc = "writeComponents"
    /\ \E i, j \in DOMAIN ContainerImages(finalObjs) :
          /\ i < j
          /\ ContainerImages(finalObjs)[i] # ContainerImages(finalObjs)[j]
          /\ imageToKey(P, ContainerImages(finalObjs)[i]) = imageToKey(P, ContainerImages(finalObjs)[j])
          /\ catalog.data[imageToKey(P, ContainerImages(finalObjs)[j])] = ContainerImages(finalObjs)[j]

---------------------------------------------------------------------------
(* C3 *)

\* C3: when a run has ended, each provider's RBAC file, component artifact and
\* provider record have all been written by the run, or none has.
C3_AllOrNothing ==
    pc \in Terminal =>
        \A n \in ProviderNames :
           LET w == {o \in Outputs : <<n, o>> \in written}
           IN  w = {} \/ w = Outputs

---------------------------------------------------------------------------
(* C6 *)

\* C6: a run that completes after a completed run on the same repositories,
\* version catalog and argument leaves every file and the image catalog as the
\* earlier run left them.
C6_Idempotent ==
    (run > 1 /\ pc = "done" /\ prev.done) =>
        /\ files = prev.files
        /\ catalog = prev.catalog

C6_Witness ==
    /\ run > 1 /\ pc = "done" /\ prev.done
    /\ providerFilter = ""
    /\ \A i \in DOMAIN providers : OwnPaths(providers[i]) \subseteq DOMAIN files
    /\ catalog.data[<<"kube-rbac-proxy">>] = ProxyV2
    /\ \E i \in DOMAIN providers :
          /\ upstream[providers[i].name].objs = GoodA
          /\ \E j \in DOMAIN providers : j > i /\ upstream[providers[j].name].objs = GoodB

---------------------------------------------------------------------------
(* C9 *)

\* an injection reference of the components that does not resolve
UnresolvedReference == \E u \in Annotated(components) : ~Resolves(components, u)

C9_State ==
    /\ \A w \in written : idx <= Len(providers) => Position(w[1]) <= idx
    /\ pc = "panicked" => \A w \in written : w[1] # P.name

C9_Step ==
    \* a run that failed takes no further step
    /\ pc \notin {"failed", "panicked"}
    \* a step goes on to the next statement or ends the run
    /\ pc = "load" => pc' \in {"rewrite", "failed"}
    /\ pc = "rewrite" => pc' \in {"split", "panicked"}
    /\ pc = "split" => pc' = "filter"
    /\ pc = "filter" => pc' = "writeRBAC"
    /\ pc = "writeRBAC" => pc' \in {"updateImages", "failed"}
    /\ pc = "updateImages" => pc' \in {"writeComponents", "failed"}
    /\ pc = "writeComponents" => pc' \in {"writeProviders", "failed"}
    /\ pc = "writeProviders" => pc' \in {"load", "done", "failed"}
    /\ (pc # "done" /\ pc' = "load") => idx' > idx
    \* the step that fails writes nothing for another provider
    /\ pc' \in {"failed", "panicked"} => idx' = idx /\ written' = written
    \* an unresolved reference ends the run at the rewrite, before any write
    /\ (pc = "rewrite" /\ UnresolvedReference) => pc' = "panicked"
    /\ pc' = "panicked" => files' = files /\ catalog' = catalog
    \* the files of the other providers stay as written
    /\ pc # "done" =>
          LET own == OwnPaths(P)
          IN  \A path \in (DOMAIN files) \ own :
                 path \in DOMAIN files' /\ files'[path] = files[path]

\* C9: a failure at the k-th provider ends the run: no later step, no write for
\* a later provider, a resolver failure before any write for provider k, and
\* the files of the earlier providers as they were written.
C9_AbortOrdering == []C9_State /\ [][C9_Step]_vars

C9_Witness ==
    /\ pc = "panicked"
    /\ written # {}
    /\ \E path \in DOMAIN files : path \notin OwnPaths(P)

====
